---- MODULE Spec2Model ----
(***************************************************************************)
(* pyHMT2D/Misc/tools.py, generate_rating_curve_based_on_Mannings_equation *)
(* as a state machine: one call of the function, from its arguments to its *)
(* return value, its sys.exit() or the exception that ends it.             *)
(*                                                                         *)
(* Numbers are exact rationals <<numerator, denominator>> in lowest terms  *)
(* (the code computes in float64; rounding is not modelled).  A sum of     *)
(* square roots (the wetted perimeter) is kept as the sequence of its      *)
(* radicands, and a discharge as the operands of Manning's formula, so     *)
(* that "is zero" and "is positive" are decided exactly.                   *)
(***************************************************************************)
EXTENDS Integers, Sequences, FiniteSets, TLC

VARIABLES
    station_profile, zprofile, overboard,      \* the arguments
    station_ManningN, ManningN, slope,
    number_of_rc_points, nResample, units,
    pc,                                        \* position in the function body
    Kn, stage, Q, Area, Pwet,                  \* its locals
    station_resample, dx_resample,
    profile_interpolator, ManningN_interpolator,
    z_resample, n_resample,
    pointI, sectionI, current_stage, underWaterFlag,
    result                                     \* the returned tuple, <<>> until then

args == <<station_profile, zprofile, overboard, station_ManningN, ManningN,
          slope, number_of_rc_points, nResample, units>>

locals == <<Kn, stage, Q, Area, Pwet, station_resample, dx_resample,
            profile_interpolator, ManningN_interpolator, z_resample, n_resample,
            pointI, sectionI, current_stage, underWaterFlag, result>>

vars == <<args, pc, locals>>

---------------------------------------------------------------------------
(* Bounds of the model *)

\* number_of_rc_points ranges over 0..MaxPoints
MaxPoints == 3

\* nResample ranges over 2..MaxResample
MaxResample == 3

---------------------------------------------------------------------------
(* Exact arithmetic *)

Abs(a) == IF a < 0 THEN -a ELSE a

RECURSIVE GCD(_, _)
GCD(a, b) == IF b = 0 THEN a ELSE GCD(b, a % b)

\* the rational n/d (d # 0) in lowest terms with a positive denominator
Rat(n, d) ==
    LET s == IF d < 0 THEN -1 ELSE 1
        g == GCD(Abs(n), Abs(d))
    IN  <<(s * n) \div g, (s * d) \div g>>

R(n) == <<n, 1>>

RAdd(a, b) == Rat(a[1] * b[2] + b[1] * a[2], a[2] * b[2])

RSub(a, b) == Rat(a[1] * b[2] - b[1] * a[2], a[2] * b[2])

RMul(a, b) == Rat(a[1] * b[1], a[2] * b[2])

RDiv(a, b) == Rat(a[1] * b[2], a[2] * b[1])

RLt(a, b) == a[1] * b[2] < b[1] * a[2]

RLe(a, b) == a[1] * b[2] <= b[1] * a[2]

RHalf == <<1, 2>>

\* an integer array as the float array numpy makes of it
AsFloats(s) == [i \in 1..Len(s) |-> R(s[i])]

\* np.zeros(n)
Zeros(n) == [i \in 1..n |-> R(0)]

\* np.min, np.max of a non-empty integer array
SeqMin(s) == CHOOSE m \in {s[i] : i \in 1..Len(s)} : \A i \in 1..Len(s) : m <= s[i]

SeqMax(s) == CHOOSE m \in {s[i] : i \in 1..Len(s)} : \A i \in 1..Len(s) : m >= s[i]

\* a linspace that leaves the end point out: step = (b-a)/num
LinspaceNoEndpoint(a, b, num) ==
    [k \in 1..num |-> RAdd(a, RMul(R(k - 1), RDiv(RSub(b, a), R(num))))]

\* np.linspace(a, b, num), endpoint included: a + k*step with step = (b-a)/(num-1),
\* the last value set to b; for num = 1 the single value a
Linspace(a, b, num) ==
    [k \in 1..num |->
        IF num = 1 THEN a
        ELSE IF k = num THEN b
        ELSE RAdd(a, RMul(R(k - 1), RDiv(RSub(b, a), R(num - 1))))]

---------------------------------------------------------------------------
(* The arguments the model draws *)

\* station arrays: station 0 first, a negative first station, a positive first
\* station, an equal pair, a decreasing pair
StationChoices ==
    {<<0, 2>>, <<0, 1, 2>>, <<-2, 0, 2>>, <<1, 2>>, <<0, 0, 2>>, <<2, 0>>}

ZValues == {0, 1}

ZChoices == UNION {[1..n -> ZValues] : n \in 2..3}

ManningStationChoices ==
    {<<0, 2>>, <<-2, 2>>, <<0, 1>>, <<1, 2>>, <<2, 2>>, <<0, 1, 2>>}

\* Manning's n in hundredths: all positive, mixed, all zero
ManningChoices == {<<3, 3>>, <<0, 3>>, <<0, 0>>, <<3, 4, 3>>, <<3, 0, 3>>}

OverboardChoices == {0, 1}

SlopeChoices == {0, 1}

UnitsChoices == {"EN", "SI", "MKS"}

---------------------------------------------------------------------------
(* The function body *)

Init ==
    /\ station_profile \in StationChoices
    /\ zprofile \in ZChoices
    /\ overboard \in OverboardChoices
    /\ station_ManningN \in ManningStationChoices
    /\ ManningN \in ManningChoices
    /\ slope \in SlopeChoices
    /\ number_of_rc_points \in 0..MaxPoints
    /\ nResample \in 2..MaxResample
    /\ units \in UnitsChoices
    /\ pc = "check_profile_shape"
    /\ Kn = R(0)
    /\ stage = <<>>
    /\ Q = <<>>
    /\ Area = <<>>
    /\ Pwet = <<>>
    /\ station_resample = <<>>
    /\ dx_resample = R(0)
    /\ profile_interpolator = <<>>
    /\ ManningN_interpolator = <<>>
    /\ z_resample = <<>>
    /\ n_resample = <<>>
    /\ pointI = 0
    /\ sectionI = 0
    /\ current_stage = R(0)
    /\ underWaterFlag = <<>>
    /\ result = <<>>

\* a monotonicity test that lets equal neighbours through
IncreasingOrEqual(s) == \A i \in 1..(Len(s) - 1) : s[i] <= s[i + 1]

\* all(i < j for i, j in zip(s, s[1:]))
StrictlyIncreasing(s) == \A i \in 1..(Len(s) - 1) : s[i] < s[i + 1]

\* (ManningN<=0).all() or slope<=0 or number_of_rc_points<=0
RangeRejected ==
    \/ \A i \in 1..Len(ManningN) : ManningN[i] <= 0
    \/ slope <= 0
    \/ number_of_rc_points <= 0

\* if station_profile.shape[0]!=zprofile.shape[0]: sys.exit()
CheckProfileShape ==
    /\ pc = "check_profile_shape"
    /\ pc' = IF Len(station_profile) # Len(zprofile) THEN "exit" ELSE "check_manning_shape"
    /\ UNCHANGED <<args, locals>>

\* if station_ManningN.shape[0]!=ManningN.shape[0]: sys.exit()
CheckManningShape ==
    /\ pc = "check_manning_shape"
    /\ pc' = IF Len(station_ManningN) # Len(ManningN) THEN "exit" ELSE "check_station"
    /\ UNCHANGED <<args, locals>>

CheckStationIncreasing ==
    /\ pc = "check_station"
    /\ pc' = IF ~StrictlyIncreasing(station_profile) THEN "exit" ELSE "check_manning_station"
    /\ UNCHANGED <<args, locals>>

CheckManningStationIncreasing ==
    /\ pc = "check_manning_station"
    /\ pc' = IF ~StrictlyIncreasing(station_ManningN) THEN "exit" ELSE "check_range"
    /\ UNCHANGED <<args, locals>>

CheckRange ==
    /\ pc = "check_range"
    /\ pc' = IF RangeRejected THEN "exit" ELSE "check_units"
    /\ UNCHANGED <<args, locals>>

CheckUnits ==
    /\ pc = "check_units"
    /\ pc' = IF units # "EN" /\ units # "SI" THEN "exit" ELSE "setup"
    /\ UNCHANGED <<args, locals>>

\* a discharge: 0.0 (manning = FALSE), or Manning's formula with its operands
QZero == [manning |-> FALSE, Kn |-> R(0), n |-> R(0), A |-> R(0), P |-> <<>>, slope |-> 0]

\* Kn, Q = np.zeros, zmin, zmax, stage = np.linspace(zmin, zmax+overboard, number_of_rc_points)
Setup ==
    /\ pc = "setup"
    /\ Kn' = IF units = "EN" THEN Rat(1486, 1000) ELSE R(1)
    /\ Q' = [i \in 1..number_of_rc_points |-> QZero]
    /\ stage' = Linspace(R(SeqMin(zprofile)), R(SeqMax(zprofile) + overboard),
                         number_of_rc_points)
    /\ pc' = "resample"
    /\ UNCHANGED <<args, Area, Pwet, station_resample, dx_resample,
                   profile_interpolator, ManningN_interpolator, z_resample, n_resample,
                   pointI, sectionI, current_stage, underWaterFlag, result>>

\* station distance between re-sample points, as the code computes it
DxResample == Rat(SeqMax(station_profile) - SeqMin(station_profile), nResample - 1)

\* station_resample = np.linspace(0, np.max(station_profile), nResample); dx_resample
Resample ==
    /\ pc = "resample"
    /\ station_resample' = Linspace(R(0), R(SeqMax(station_profile)), nResample)
    /\ dx_resample' = DxResample
    /\ pc' = "build_interpolators"
    /\ UNCHANGED <<args, Kn, stage, Q, Area, Pwet,
                   profile_interpolator, ManningN_interpolator, z_resample, n_resample,
                   pointI, sectionI, current_stage, underWaterFlag, result>>

\* interpolate.interp1d(x, y): the interpolator keeps its data
BuildInterpolators ==
    /\ pc = "build_interpolators"
    /\ profile_interpolator' = <<AsFloats(station_profile), AsFloats(zprofile)>>
    /\ ManningN_interpolator' = <<AsFloats(station_ManningN), AsFloats(ManningN)>>
    /\ pc' = "interpolate_z"
    /\ UNCHANGED <<args, Kn, stage, Q, Area, Pwet, station_resample, dx_resample,
                   z_resample, n_resample,
                   pointI, sectionI, current_stage, underWaterFlag, result>>

\* an interpolator that extrapolates instead of checking its bounds
AlwaysInDomain(f, xnew) == TRUE

\* interp1d's bounds check (bounds_error is on by default): every new x lies in [x[0], x[-1]]
InDomain(f, xnew) ==
    \A i \in 1..Len(xnew) :
        /\ ~RLt(xnew[i], f[1][1])
        /\ ~RLt(f[1][Len(f[1])], xnew[i])

\* the upper end of the segment interp1d uses for xn: searchsorted(x, xn), clipped to 1..len-1
SegmentHi(x, xn) ==
    LET ge == {j \in 1..Len(x) : ~RLt(x[j], xn)}
        first == IF ge = {} THEN Len(x) + 1 ELSE CHOOSE j \in ge : \A k \in ge : j <= k
    IN  IF first < 2 THEN 2 ELSE IF first > Len(x) THEN Len(x) ELSE first

\* linear interpolation: slope*(xn - x_lo) + y_lo
InterpAt(f, xn) ==
    LET hi == SegmentHi(f[1], xn)
        lo == hi - 1
        sl == RDiv(RSub(f[2][hi], f[2][lo]), RSub(f[1][hi], f[1][lo]))
    IN  RAdd(RMul(sl, RSub(xn, f[1][lo])), f[2][lo])

Interpolate(f, xnew) == [i \in 1..Len(xnew) |-> InterpAt(f, xnew[i])]

\* z_resample = profile_interpolator(station_resample)
InterpolateZ ==
    /\ pc = "interpolate_z"
    /\ IF InDomain(profile_interpolator, station_resample)
       THEN /\ z_resample' = Interpolate(profile_interpolator, station_resample)
            /\ pc' = "interpolate_n"
       ELSE /\ z_resample' = z_resample
            /\ pc' = "ValueError"
    /\ UNCHANGED <<args, Kn, stage, Q, Area, Pwet, station_resample, dx_resample,
                   profile_interpolator, ManningN_interpolator, n_resample,
                   pointI, sectionI, current_stage, underWaterFlag, result>>

\* n_resample = ManningN_interpolator(station_resample); Area, Pwet = np.zeros
InterpolateN ==
    /\ pc = "interpolate_n"
    /\ IF InDomain(ManningN_interpolator, station_resample)
       THEN /\ n_resample' = Interpolate(ManningN_interpolator, station_resample)
            /\ Area' = Zeros(number_of_rc_points)
            /\ Pwet' = [i \in 1..number_of_rc_points |-> <<>>]
            /\ pointI' = 0
            /\ pc' = "stage_loop"
       ELSE /\ UNCHANGED <<n_resample, Area, Pwet, pointI>>
            /\ pc' = "ValueError"
    /\ UNCHANGED <<args, Kn, stage, Q, station_resample, dx_resample,
                   profile_interpolator, ManningN_interpolator, z_resample,
                   sectionI, current_stage, underWaterFlag, result>>

\* for pointI in range(number_of_rc_points): current_stage, underWaterFlag = np.zeros;
\* after the last stage: return stage, Q, Area, Pwet, station_resample, z_resample
StageLoop ==
    /\ pc = "stage_loop"
    /\ IF pointI < number_of_rc_points
       THEN /\ current_stage' = stage[pointI + 1]
            /\ underWaterFlag' = [i \in 1..(nResample - 1) |-> 0]
            /\ sectionI' = 0
            /\ pc' = "flag_sections"
            /\ result' = result
       ELSE /\ result' = <<stage, Q, Area, Pwet, station_resample, z_resample>>
            /\ pc' = "returned"
            /\ UNCHANGED <<current_stage, underWaterFlag, sectionI>>
    /\ UNCHANGED <<args, Kn, stage, Q, Area, Pwet, station_resample, dx_resample,
                   profile_interpolator, ManningN_interpolator, z_resample, n_resample,
                   pointI>>

\* wet tests with <= for <, and with "or" for "and"
IsWetNonStrict(za, zb, s) == RLe(za, s) /\ RLe(zb, s)

IsWetEitherEnd(za, zb, s) == RLt(za, s) \/ RLt(zb, s)

\* z_resample[sectionI] < current_stage and z_resample[sectionI+1] < current_stage
IsWet(za, zb, s) == RLt(za, s) /\ RLt(zb, s)

\* first loop over the re-sampled sections: underWaterFlag[sectionI] = 1 when wet
FlagSection ==
    /\ pc = "flag_sections"
    /\ IF sectionI < nResample - 1
       THEN /\ underWaterFlag' =
                 IF IsWet(z_resample[sectionI + 1], z_resample[sectionI + 2], current_stage)
                 THEN [underWaterFlag EXCEPT ![sectionI + 1] = 1]
                 ELSE underWaterFlag
            /\ sectionI' = sectionI + 1
            /\ pc' = pc
       ELSE /\ sectionI' = 0
            /\ pc' = "accumulate"
            /\ underWaterFlag' = underWaterFlag
    /\ UNCHANGED <<args, Kn, stage, Q, Area, Pwet, station_resample, dx_resample,
                   profile_interpolator, ManningN_interpolator, z_resample, n_resample,
                   pointI, current_stage, result>>

\* 0.5*((current_stage-z[i]) + (current_stage-z[i+1]))*dx_resample*underWaterFlag[i]
SectionArea(s, za, zb, dx, flag) ==
    RMul(RMul(RMul(RHalf, RAdd(RSub(s, za), RSub(s, zb))), dx), R(flag))

\* the radicand of np.sqrt(dx_resample**2 + (z[i]-z[i+1])**2)*underWaterFlag[i]
SectionRadicand(za, zb, dx, flag) ==
    RMul(RAdd(RMul(dx, dx), RMul(RSub(za, zb), RSub(za, zb))), R(flag))

\* second loop over the re-sampled sections: Area[pointI] +=, Pwet[pointI] +=
AccumulateSection ==
    /\ pc = "accumulate"
    /\ IF sectionI < nResample - 1
       THEN /\ Area' = [Area EXCEPT ![pointI + 1] =
                           RAdd(@, SectionArea(current_stage, z_resample[sectionI + 1],
                                               z_resample[sectionI + 2], dx_resample,
                                               underWaterFlag[sectionI + 1]))]
            /\ Pwet' = [Pwet EXCEPT ![pointI + 1] =
                           Append(@, SectionRadicand(z_resample[sectionI + 1],
                                                     z_resample[sectionI + 2], dx_resample,
                                                     underWaterFlag[sectionI + 1]))]
            /\ sectionI' = sectionI + 1
            /\ pc' = pc
       ELSE /\ pc' = "discharge"
            /\ UNCHANGED <<Area, Pwet, sectionI>>
    /\ UNCHANGED <<args, Kn, stage, Q, station_resample, dx_resample,
                   profile_interpolator, ManningN_interpolator, z_resample, n_resample,
                   pointI, current_stage, underWaterFlag, result>>

\* the dry test with < for <=
NeverDry(flags) == \A i \in 1..Len(flags) : flags[i] < 0

\* np.max(underWaterFlag) <= 0
NoSectionWetted(flags) == \A i \in 1..Len(flags) : flags[i] <= 0

\* Q[pointI] = 0.0 when no section is wet, else Manning's formula with n_resample[pointI];
\* the index pointI is past the end of n_resample when pointI >= nResample
Discharge ==
    /\ pc = "discharge"
    /\ IF NoSectionWetted(underWaterFlag)
       THEN /\ Q' = [Q EXCEPT ![pointI + 1] = QZero]
            /\ pointI' = pointI + 1
            /\ pc' = "stage_loop"
       ELSE IF pointI >= Len(n_resample)
       THEN /\ pc' = "IndexError"
            /\ UNCHANGED <<Q, pointI>>
       ELSE /\ Q' = [Q EXCEPT ![pointI + 1] =
                        [manning |-> TRUE, Kn |-> Kn, n |-> n_resample[pointI + 1],
                         A |-> Area[pointI + 1], P |-> Pwet[pointI + 1], slope |-> slope]]
            /\ pointI' = pointI + 1
            /\ pc' = "stage_loop"
    /\ UNCHANGED <<args, Kn, stage, Area, Pwet, station_resample, dx_resample,
                   profile_interpolator, ManningN_interpolator, z_resample, n_resample,
                   sectionI, current_stage, underWaterFlag, result>>

Next ==
    \/ CheckProfileShape
    \/ CheckManningShape
    \/ CheckStationIncreasing
    \/ CheckManningStationIncreasing
    \/ CheckRange
    \/ CheckUnits
    \/ Setup
    \/ Resample
    \/ BuildInterpolators
    \/ InterpolateZ
    \/ InterpolateN
    \/ StageLoop
    \/ FlagSection
    \/ AccumulateSection
    \/ Discharge

Spec == Init /\ [][Next]_vars

---------------------------------------------------------------------------
(* Vocabulary of the properties *)

ValidatorPcs ==
    {"check_profile_shape", "check_manning_shape", "check_station",
     "check_manning_station", "check_range", "check_units", "exit"}

\* nothing past the validator has run
NothingComputed ==
    /\ pc \in ValidatorPcs
    /\ stage = <<>> /\ station_resample = <<>>
    /\ profile_interpolator = <<>> /\ ManningN_interpolator = <<>>
    /\ z_resample = <<>> /\ n_resample = <<>>
    /\ Area = <<>> /\ Pwet = <<>>
    /\ result = <<>>

HasNonIncreasingPair(s) == \E i \in 1..(Len(s) - 1) : s[i] >= s[i + 1]

\* the grid spans 0 .. max(station_profile); [min(x), max(x)] contains it
CoversGrid(x) ==
    LET m == SeqMax(station_profile)
    IN  /\ SeqMin(x) <= 0 /\ SeqMin(x) <= m
        /\ SeqMax(x) >= 0 /\ SeqMax(x) >= m

InterfacePreconditions ==
    /\ Len(station_profile) = Len(zprofile)
    /\ Len(station_ManningN) = Len(ManningN)
    /\ ~HasNonIncreasingPair(station_profile)
    /\ ~HasNonIncreasingPair(station_ManningN)
    /\ \A i \in 1..Len(ManningN) : ManningN[i] > 0
    /\ slope > 0
    /\ number_of_rc_points > 0
    /\ nResample >= 2
    /\ overboard >= 0
    /\ units \in {"EN", "SI"}
    /\ CoversGrid(station_profile)
    /\ CoversGrid(station_ManningN)

\* a sum of square roots, given by its radicands
PwetIsZero(rads) == \A i \in 1..Len(rads) : rads[i] = R(0)

PwetIsPositive(rads) == \E i \in 1..Len(rads) : RLt(R(0), rads[i])

\* stage records 1..pointI are complete
Completed == 1..pointI

\* the trapezoid sum over the sections with both ends strictly below s
RECURSIVE WettedAreaUpTo(_, _)
WettedAreaUpTo(s, k) ==
    IF k = 0 THEN R(0)
    ELSE LET za == z_resample[k]
             zb == z_resample[k + 1]
             both == za[1] * s[2] < s[1] * za[2] /\ zb[1] * s[2] < s[1] * zb[2]
             trap == RMul(RMul(RHalf, RAdd(RSub(s, za), RSub(s, zb))), dx_resample)
         IN  RAdd(WettedAreaUpTo(s, k - 1), IF both THEN trap ELSE R(0))

\* the area between the input profile and the level s, where the profile is below s
SegmentExactArea(w, za, zb, s) ==
    LET lo == IF za <= zb THEN R(za) ELSE R(zb)
        hi == IF za <= zb THEN R(zb) ELSE R(za)
    IN  IF ~RLt(lo, s) THEN R(0)
        ELSE IF RLt(hi, s)
        THEN RMul(RMul(RHalf, RAdd(RSub(s, lo), RSub(s, hi))), R(w))
        ELSE RDiv(RMul(RMul(RHalf, RMul(RSub(s, lo), RSub(s, lo))), R(w)), RSub(hi, lo))

RECURSIVE ExactAreaUpTo(_, _)
ExactAreaUpTo(s, j) ==
    IF j = 0 THEN R(0)
    ELSE RAdd(ExactAreaUpTo(s, j - 1),
              SegmentExactArea(station_profile[j + 1] - station_profile[j],
                               zprofile[j], zprofile[j + 1], s))

ExactArea(s) == ExactAreaUpTo(s, Len(station_profile) - 1)

---------------------------------------------------------------------------
(* Properties *)

\* C1: whenever at least one roughness value is <= 0, or slope <= 0, or
\* number_of_rc_points <= 0, the call is rejected: it never leaves the validator,
\* and nothing of the resampler or the stage sweep is computed.
C1_RejectsAnyNonPositive ==
    (\/ \E i \in 1..Len(ManningN) : ManningN[i] <= 0
     \/ slope <= 0
     \/ number_of_rc_points <= 0)
    => NothingComputed

\* C2: for every input that meets the interface preconditions the call ends by
\* returning, never by an exit or an exception, and the returned stage, Q, Area and
\* Pwet have number_of_rc_points entries, the resampled arrays nResample entries.
C2_ValidInputReturns ==
    InterfacePreconditions =>
        /\ pc \notin {"exit", "ValueError", "IndexError"}
        /\ pc = "returned" =>
              /\ \A k \in 1..4 : Len(result[k]) = number_of_rc_points
              /\ \A k \in 5..6 : Len(result[k]) = nResample

\* C3: once the resampler has succeeded on an input of positive roughness,
\* dx_resample is the spacing between every two adjacent resampled stations.
C3_DxIsGridSpacing ==
    (n_resample # <<>> /\ \A i \in 1..Len(ManningN) : ManningN[i] > 0) =>
        \A i \in 1..(nResample - 1) :
            RSub(station_resample[i + 1], station_resample[i]) = dx_resample

\* C4: when station_profile or station_ManningN has an adjacent pair that is not
\* strictly increasing, no interpolator is built or evaluated and nothing is returned.
C4_MonotonicityGuard ==
    (HasNonIncreasingPair(station_profile) \/ HasNonIncreasingPair(station_ManningN))
    => NothingComputed

C4_Witness ==
    /\ pc = "exit"
    /\ Len(station_profile) = Len(zprofile)
    /\ Len(station_ManningN) = Len(ManningN)
    /\ ~HasNonIncreasingPair(station_profile)
    /\ station_ManningN = <<2, 2>>

\* C5: when the station domain of the roughness profile, or of the cross-section
\* profile, does not contain the resampled grid, the call ends in an exit or an
\* error: no value is interpolated outside the domain, the stage loop is never
\* entered and nothing is returned.
C5_NoExtrapolation ==
    (~CoversGrid(station_profile) \/ ~CoversGrid(station_ManningN)) =>
        /\ pc \in ValidatorPcs \cup
                  {"setup", "resample", "build_interpolators", "interpolate_z",
                   "interpolate_n", "ValueError"}
        /\ ~CoversGrid(station_profile) => z_resample = <<>>
        /\ n_resample = <<>>
        /\ Area = <<>> /\ Pwet = <<>>
        /\ result = <<>>

C5_Witness ==
    /\ pc = "ValueError"
    /\ CoversGrid(station_profile)
    /\ ~CoversGrid(station_ManningN)
    /\ z_resample # <<>>

\* C6: the first stage is min(zprofile), and every completed record whose stage is
\* min(zprofile) has area 0, wetted perimeter 0 and discharge exactly 0.
C6_ZeroFlowFloor ==
    stage # <<>> =>
        /\ stage[1] = R(SeqMin(zprofile))
        /\ \A p \in Completed :
              stage[p] = R(SeqMin(zprofile)) =>
                  /\ Area[p] = R(0)
                  /\ PwetIsZero(Pwet[p])
                  /\ Q[p] = QZero

C6_Witness ==
    /\ pc = "returned"
    /\ number_of_rc_points >= 2
    /\ Area[1] = R(0) /\ Q[1] = QZero
    /\ \E p \in 2..number_of_rc_points : RLt(R(0), Area[p])

\* C7: for every completed stage, a zero area goes with Q = 0.0 and no evaluation of
\* Manning's formula; wherever the formula was evaluated, the area and the wetted
\* perimeter it was given are those of the stage and both are strictly positive.
C7_NoZeroPerimeterDivision ==
    \A p \in Completed :
        /\ Area[p] = R(0) => Q[p] = QZero
        /\ Q[p].manning =>
              /\ Q[p].A = Area[p] /\ Q[p].P = Pwet[p]
              /\ RLt(R(0), Q[p].A)
              /\ PwetIsPositive(Q[p].P)

C7_Witness ==
    /\ pc = "returned"
    /\ \E p \in Completed : Q[p].manning
    /\ \E p \in Completed : Q[p] = QZero /\ Area[p] = R(0)

\* C8: a section is flagged wet exactly when both its ends are strictly below the
\* stage; the area of every stage swept so far is the trapezoid sum over exactly
\* those sections, a function of that stage alone, and the stages not yet swept
\* are untouched.
C8_WettedSectionsSum ==
    /\ pc \in {"accumulate", "discharge"} =>
          \A i \in 1..(nResample - 1) :
              underWaterFlag[i] = 1 <=>
                  (/\ RLt(z_resample[i], current_stage)
                   /\ RLt(z_resample[i + 1], current_stage))
    /\ \A p \in 1..Len(Area) :
          IF p \in Completed \/ (p = pointI + 1 /\ pc \in {"discharge", "IndexError"})
          THEN Area[p] = WettedAreaUpTo(stage[p], nResample - 1)
          ELSE IF p > pointI + 1
          THEN Area[p] = R(0) /\ Pwet[p] = <<>>
          ELSE TRUE

C8_Witness ==
    /\ pc = "returned"
    /\ \E p \in Completed :
          /\ RLt(R(0), Area[p])
          /\ \E i \in 1..Len(Pwet[p]) : Pwet[p][i] = R(0)
          /\ \E i \in 1..Len(Pwet[p]) : Pwet[p][i] # R(0)

\* C9 as stated: for every number_of_rc_points >= 1 the stage grid has
\* number_of_rc_points evenly spaced ascending values, the first min(zprofile) and
\* the last max(zprofile) + overboard.
C9_StageGridBothEnds ==
    (stage # <<>> /\ overboard >= 0) =>
        /\ Len(stage) = number_of_rc_points
        /\ stage[1] = R(SeqMin(zprofile))
        /\ stage[Len(stage)] = R(SeqMax(zprofile) + overboard)
        /\ \A k \in 1..(Len(stage) - 1) : RLe(stage[k], stage[k + 1])
        /\ \A k \in 1..(Len(stage) - 2) :
              RSub(stage[k + 1], stage[k]) = RSub(stage[k + 2], stage[k + 1])

\* C9 amended: the same for number_of_rc_points >= 2; for number_of_rc_points = 1
\* the grid is the single value min(zprofile).
C9_StageGrid ==
    (stage # <<>> /\ overboard >= 0) =>
        /\ Len(stage) = number_of_rc_points
        /\ stage[1] = R(SeqMin(zprofile))
        /\ number_of_rc_points >= 2 =>
              stage[Len(stage)] = R(SeqMax(zprofile) + overboard)
        /\ \A k \in 1..(Len(stage) - 1) : RLe(stage[k], stage[k + 1])
        /\ \A k \in 1..(Len(stage) - 2) :
              RSub(stage[k + 1], stage[k]) = RSub(stage[k + 2], stage[k + 1])

C9_Witness ==
    /\ pc = "returned"
    /\ number_of_rc_points >= 3
    /\ RLt(stage[1], stage[2])

\* C10: for every stage swept on an input of positive roughness, the computed wetted
\* area does not exceed the exact area between the piecewise-linear input profile
\* and the stage.
C10_NeverOverestimates ==
    (\A i \in 1..Len(ManningN) : ManningN[i] > 0) =>
        \A p \in Completed : RLe(Area[p], ExactArea(stage[p]))

====
